---- MODULE Spec2Model ----
(***************************************************************************)
(* Authentication and credential-recovery flow of the ReadIt server:       *)
(* UserResolver (src/src/resolvers/user.ts) over the user table, the       *)
(* session store and the redis reset-token store.                          *)
(*                                                                         *)
(* Strings whose characters the code inspects (email, username, password,  *)
(* the decimal user id kept in redis) are sequences of one-character       *)
(* strings; opaque strings (tokens, messages) are TLA+ strings.            *)
(***************************************************************************)
EXTENDS Integers, Sequences, FiniteSets, TLC

VARIABLES
  users,     \* the user table: a set of rows [id, email, username, password]
  redis,     \* the key-value store: key -> [value, setAt, ex]
  session,   \* per client cookie: the userId held by ctx.req.session (NoUser: unset)
  outbox,    \* the messages handed to sendEmail
  now,       \* wall clock, in seconds
  ticks,     \* number of clock advances so far
  uses,      \* per token: successful changePassword calls since it was last issued
  resp,      \* the last request and what it returned
  procs      \* the requests in flight (interleaved executions only)

vars == <<users, redis, session, outbox, now, ticks, uses, resp, procs>>

----------------------------------------------------------------------------
(* Bounds and input domains *)

MaxTicks == 1

NoUser == 0

Clients == {"c1"}
Tokens == {"t1", "t2"}

Emails == { <<"a","@","x">>, <<"b","@","x">>, <<"a","x">> }
Usernames == { <<"a","n","n">>, <<"b","o","b">>, <<"a","@","x">>, <<"a","n">> }
Passwords == { <<"p","w","1">>, <<"p","w","2">>, <<"p","w">> }
Identifiers == Emails \cup Usernames

Procs == {"p1", "p2"}

----------------------------------------------------------------------------
(* Strings *)

\* a test of the first character only
includes_first(s, ch) == s # << >> /\ s[1] = ch

includes(s, ch) == \E i \in 1..Len(s) : s[i] = ch

\* a limit that lets two characters through
tooShort_two(s) == Len(s) <= 1

\* the length test of lines 102, 114 and 218
tooShort(s) == Len(s) <= 2

RECURSIVE count(_, _)
count(s, ch) ==
  IF s = << >> THEN 0
  ELSE (IF Head(s) = ch THEN 1 ELSE 0) + count(Tail(s), ch)

\* validateEmail: one "@" with text on both sides of it
validateEmail(s) ==
  /\ count(s, "@") = 1
  /\ s[1] # "@"
  /\ s[Len(s)] # "@"

Digits == <<"0","1","2","3","4","5","6","7","8","9">>

digitValue(ch) == (CHOOSE i \in 1..10 : Digits[i] = ch) - 1

isDigit(ch) == \E i \in 1..10 : Digits[i] = ch

\* the decimal text redis keeps for a number written to it
RECURSIVE toString(_)
toString(n) ==
  IF n < 10 THEN << Digits[n + 1] >>
  ELSE Append(toString(n \div 10), Digits[(n % 10) + 1])

NaN == -1

RECURSIVE parseDigits(_, _)
parseDigits(s, acc) ==
  IF s = << >> \/ ~isDigit(Head(s)) THEN acc
  ELSE parseDigits(Tail(s), acc * 10 + digitValue(Head(s)))

\* parseInt: the leading decimal digits, NaN when there are none
parseInt(s) ==
  IF s = << >> \/ ~isDigit(Head(s)) THEN NaN ELSE parseDigits(s, 0)

----------------------------------------------------------------------------
(* argon2 *)

argon2_hash(pw) == << "$argon2" >> \o pw

argon2_verify(hash, pw) == hash = argon2_hash(pw)

\* the arguments of verify exchanged
isPasswordValid_swapped(user, password) == argon2_verify(password, user.password)

isPasswordValid(user, password) == argon2_verify(user.password, password)

----------------------------------------------------------------------------
(* The user table *)

NoRow == [id |-> NoUser, email |-> << >>, username |-> << >>, password |-> << >>]

findOneByEmail(U, email) ==
  IF \E r \in U : r.email = email
  THEN CHOOSE r \in U : r.email = email
  ELSE NoRow

findOneByUsername(U, username) ==
  IF \E r \in U : r.username = username
  THEN CHOOSE r \in U : r.username = username
  ELSE NoRow

findOneById(U, id) ==
  IF \E r \in U : r.id = id
  THEN CHOOSE r \in U : r.id = id
  ELSE NoRow

nextId(U) == Cardinality(U) + 1

\* a table without the indexes
uniqueViolation_none(U, row) == FALSE

\* the unique indexes on email and username
uniqueViolation(U, row) ==
  \E r \in U : r.email = row.email \/ r.username = row.username

\* User.create(...).save(): the row with its new id, or a rejected insert
save(U, email, username, password) ==
  LET row == [id |-> nextId(U), email |-> email, username |-> username,
              password |-> password]
  IN IF uniqueViolation(U, row)
     THEN [ok |-> FALSE, row |-> NoRow, users |-> U]
     ELSE [ok |-> TRUE, row |-> row, users |-> U \cup {row}]

updatePassword(U, id, hashed) ==
  { IF r.id = id THEN [r EXCEPT !.password = hashed] ELSE r : r \in U }

----------------------------------------------------------------------------
(* The key-value store *)

FORGOT_PASSWORD_PREFIX == "forgot-password:"

Key(token) == << FORGOT_PASSWORD_PREFIX, token >>

Keys == { Key(t) : t \in Tokens }

NoEntry == [value |-> << >>, setAt |-> 0, ex |-> 0]

\* SET key value EX seconds
redisSet(R, key, value, seconds, t) ==
  [R EXCEPT ![key] = [value |-> toString(value), setAt |-> t, ex |-> seconds]]

live(R, key, t) == R[key] # NoEntry /\ t < R[key].setAt + R[key].ex

\* GET key: the value, or null (the empty text) once absent or expired
redisGet(R, key, t) == IF live(R, key, t) THEN R[key].value ELSE << >>

\* a DEL that is never sent
redisDel_skipped(R, key) == R

redisDel(R, key) == [R EXCEPT ![key] = NoEntry]

\* the expiry forgotPassword passes with "ex"
TokenExpiry == 1000 * 60 * 60 * 24

----------------------------------------------------------------------------
(* Responses *)

Err(field, message) == << [field |-> field, message |-> message] >>

NoErrors == << >>

Resp(op, kind, errors, user, token) ==
  [op |-> op, kind |-> kind, errors |-> errors, user |-> user, token |-> token]

----------------------------------------------------------------------------
(* UserResolver: each handler as a function of the state it reads, giving   *)
(* the response and the state it leaves                                     *)

\* me: the session's user, or null
me(U, S, c) ==
  IF S[c] = NoUser THEN NoUser
  ELSE findOneById(U, S[c]).id

register(U, S, c, email, username, password) ==
  LET fail(field, message) ==
        [resp |-> Resp("register", "errors", Err(field, message), NoUser, ""),
         users |-> U, session |-> S]
  IN
  IF ~validateEmail(email)
    THEN fail("email", "invalid email format")
  ELSE IF findOneByEmail(U, email) # NoRow
    THEN fail("email", "email already in use")
  ELSE IF includes(username, "@")
    THEN fail("username", "username cannot contain '@' sign")
  ELSE IF findOneByUsername(U, username) # NoRow
    THEN fail("username", "username not available")
  ELSE IF tooShort(username)
    THEN fail("username", "username must be atleast 3 characters long")
  ELSE IF tooShort(password)
    THEN fail("password", "password must be atleast 3 characters long")
  ELSE
    LET saved == save(U, email, username, argon2_hash(password)) IN
    IF ~saved.ok
      THEN [resp |-> Resp("register", "throw", NoErrors, NoUser, ""),
            users |-> U, session |-> S]
      ELSE [resp |-> Resp("register", "user", NoErrors, saved.row.id, ""),
            users |-> saved.users,
            session |-> [S EXCEPT ![c] = saved.row.id]]

login(U, S, c, usernameOrEmail, password) ==
  LET user == IF validateEmail(usernameOrEmail)
              THEN findOneByEmail(U, usernameOrEmail)
              ELSE findOneByUsername(U, usernameOrEmail)
  IN
  IF user = NoRow
    THEN [resp |-> Resp("login", "errors",
                        Err("usernameOrEmail", "username/email not found"),
                        NoUser, ""),
          session |-> S]
  ELSE IF ~isPasswordValid(user, password)
    THEN [resp |-> Resp("login", "errors",
                        Err("password", "incorrect password"), NoUser, ""),
          session |-> S]
  ELSE [resp |-> Resp("login", "user", NoErrors, user.id, ""),
        session |-> [S EXCEPT ![c] = user.id]]

\* a logout that reports success whatever destroy answers
logout_deaf(S, c, err, cookieLost) ==
  [resp |-> Resp("logout", "true", NoErrors, NoUser, ""),
   session |-> IF err /\ ~cookieLost THEN S ELSE [S EXCEPT ![c] = NoUser]]

\* logout: err is what session.destroy hands its callback; when the store
\* fails to destroy the session, cookieLost says whether the cleared cookie
\* still detaches the client from it
logout(S, c, err, cookieLost) ==
  IF err
    THEN [resp |-> Resp("logout", "false", NoErrors, NoUser, ""),
          session |-> IF cookieLost THEN [S EXCEPT ![c] = NoUser] ELSE S]
    ELSE [resp |-> Resp("logout", "true", NoErrors, NoUser, ""),
          session |-> [S EXCEPT ![c] = NoUser]]

resetLink(token) == << "http://localhost:3000/changePassword/", token >>

sendEmail(O, to, html) == O \cup { [to |-> to, html |-> html] }

\* a forgotPassword without the early return for an unknown email
forgotPassword_always(U, R, O, email, token, t) ==
  LET user == findOneByEmail(U, email) IN
  [resp |-> Resp("forgotPassword", "true", NoErrors, NoUser, token),
   redis |-> redisSet(R, Key(token), user.id, TokenExpiry, t),
   outbox |-> sendEmail(O, email, resetLink(token)),
   issued |-> TRUE]

\* forgotPassword: token is the value v4() returns
forgotPassword(U, R, O, email, token, t) ==
  LET user == findOneByEmail(U, email) IN
  IF user = NoRow
    THEN [resp |-> Resp("forgotPassword", "true", NoErrors, NoUser, ""),
          redis |-> R, outbox |-> O, issued |-> FALSE]
    ELSE [resp |-> Resp("forgotPassword", "true", NoErrors, NoUser, token),
          redis |-> redisSet(R, Key(token), user.id, TokenExpiry, t),
          outbox |-> sendEmail(O, email, resetLink(token)),
          issued |-> TRUE]

\* a changePassword that deletes the token as soon as it has read it
changePassword_eager(U, R, S, c, token, newPassword, t) ==
  LET key == Key(token)
      userId == redisGet(R, key, t)
      userIdNum == parseInt(userId)
      user == findOneById(U, userIdNum)
      fail(field, message, R2) ==
        [resp |-> Resp("changePassword", "errors", Err(field, message),
                       NoUser, token),
         users |-> U, redis |-> R2, session |-> S]
  IN
  IF userId = << >>
    THEN fail("token", "token expired", R)
  ELSE IF tooShort(newPassword)
    THEN fail("newPassword", "password must be atleast 3 characters long",
              redisDel(R, key))
  ELSE IF user = NoRow
    THEN fail("token", "user no longer exists", redisDel(R, key))
  ELSE [resp |-> Resp("changePassword", "user", NoErrors, user.id, token),
        users |-> updatePassword(U, userIdNum, argon2_hash(newPassword)),
        redis |-> redisDel(R, key),
        session |-> [S EXCEPT ![c] = user.id]]

changePassword(U, R, S, c, token, newPassword, t) ==
  LET fail(field, message) ==
        [resp |-> Resp("changePassword", "errors", Err(field, message),
                       NoUser, token),
         users |-> U, redis |-> R, session |-> S]
      key == Key(token)
      userId == redisGet(R, key, t)
      userIdNum == parseInt(userId)
      user == findOneById(U, userIdNum)
  IN
  IF tooShort(newPassword)
    THEN fail("newPassword", "password must be atleast 3 characters long")
  ELSE IF userId = << >>
    THEN fail("token", "token expired")
  ELSE IF user = NoRow
    THEN fail("token", "user no longer exists")
  ELSE [resp |-> Resp("changePassword", "user", NoErrors, user.id, token),
        users |-> updatePassword(U, userIdNum, argon2_hash(newPassword)),
        redis |-> redisDel(R, key),
        session |-> [S EXCEPT ![c] = user.id]]

----------------------------------------------------------------------------
(* Requests served one at a time *)

Idle == [pc |-> "idle", op |-> "", email |-> << >>, username |-> << >>,
         password |-> << >>, token |-> "", uid |-> NoUser]

Init ==
  /\ users = {}
  /\ redis = [k \in Keys |-> NoEntry]
  /\ session = [c \in Clients |-> NoUser]
  /\ outbox = {}
  /\ now = 0
  /\ ticks = 0
  /\ uses = [t \in Tokens |-> 0]
  /\ resp = Resp("init", "init", NoErrors, NoUser, "")
  /\ procs = [p \in Procs |-> Idle]

Me(c) ==
  /\ resp' = Resp("me", IF me(users, session, c) = NoUser THEN "null" ELSE "user",
                  NoErrors, me(users, session, c), "")
  /\ UNCHANGED <<users, redis, session, outbox, now, ticks, uses, procs>>

Register(c, email, username, password) ==
  LET r == register(users, session, c, email, username, password) IN
  /\ users' = r.users
  /\ session' = r.session
  /\ resp' = r.resp
  /\ UNCHANGED <<redis, outbox, now, ticks, uses, procs>>

Login(c, usernameOrEmail, password) ==
  LET r == login(users, session, c, usernameOrEmail, password) IN
  /\ session' = r.session
  /\ resp' = r.resp
  /\ UNCHANGED <<users, redis, outbox, now, ticks, uses, procs>>

Logout(c, err, cookieLost) ==
  LET r == logout(session, c, err, cookieLost) IN
  /\ session' = r.session
  /\ resp' = r.resp
  /\ UNCHANGED <<users, redis, outbox, now, ticks, uses, procs>>

ForgotPassword(email, token) ==
  LET r == forgotPassword(users, redis, outbox, email, token, now) IN
  /\ redis' = r.redis
  /\ outbox' = r.outbox
  /\ uses' = IF r.issued THEN [uses EXCEPT ![token] = 0] ELSE uses
  /\ resp' = r.resp
  /\ UNCHANGED <<users, session, now, ticks, procs>>

ChangePassword(c, token, newPassword) ==
  LET r == changePassword(users, redis, session, c, token, newPassword, now) IN
  /\ users' = r.users
  /\ redis' = r.redis
  /\ session' = r.session
  /\ uses' = IF r.resp.kind = "user" THEN [uses EXCEPT ![token] = @ + 1] ELSE uses
  /\ resp' = r.resp
  /\ UNCHANGED <<outbox, now, ticks, procs>>

DaySeconds == 24 * 60 * 60

TickSteps == { DaySeconds + 1, TokenExpiry }

\* time passes; the store expires entries by itself
Tick(d) ==
  /\ ticks < MaxTicks
  /\ now' = now + d
  /\ ticks' = ticks + 1
  /\ resp' = Resp("tick", "tick", NoErrors, NoUser, "")
  /\ UNCHANGED <<users, redis, session, outbox, uses, procs>>

Next ==
  \/ \E c \in Clients : Me(c)
  \/ \E c \in Clients, e \in Emails, u \in Usernames, p \in Passwords :
       Register(c, e, u, p)
  \/ \E c \in Clients, i \in Identifiers, p \in Passwords : Login(c, i, p)
  \/ \E c \in Clients, err \in BOOLEAN, lost \in BOOLEAN : Logout(c, err, lost)
  \/ \E e \in Emails, t \in Tokens : ForgotPassword(e, t)
  \/ \E c \in Clients, t \in Tokens, p \in Passwords : ChangePassword(c, t, p)

Spec == Init /\ [][Next]_vars

\* The reset-token life cycle with the clock running: the handlers that touch
\* the token store, and the passing of time
NextClock ==
  \/ \E c \in Clients, e \in Emails, u \in Usernames, p \in Passwords :
       Register(c, e, u, p)
  \/ \E e \in Emails, t \in Tokens : ForgotPassword(e, t)
  \/ \E c \in Clients, t \in Tokens, p \in Passwords : ChangePassword(c, t, p)
  \/ \E d \in TickSteps : Tick(d)

SpecClock == Init /\ [][NextClock]_vars

----------------------------------------------------------------------------
(* Requests in flight together.  A handler runs from one await to the next  *)
(* without interruption; each query on the user table and each command on   *)
(* the key-value store is one step.                                         *)

ConcEmails == { <<"a","@","x">>, <<"b","@","x">> }
ConcUsernames == { <<"a","n","n">>, <<"b","o","b">> }
ConcPasswords == { <<"p","w","1">>, <<"p","w","2">> }
ConcTokens == { "t1" }

Return(p, r) ==
  /\ procs' = [procs EXCEPT ![p] = Idle]
  /\ resp' = r

Goto(p, local) ==
  /\ procs' = [procs EXCEPT ![p] = local]
  /\ UNCHANGED resp

\* register, lines 69-82: the email checks, on the answer to the first query
RegisterEmail(p, email, username, password) ==
  /\ procs[p].pc = "idle"
  /\ IF ~validateEmail(email)
       THEN Return(p, Resp("register", "errors",
                           Err("email", "invalid email format"), NoUser, ""))
     ELSE IF findOneByEmail(users, email) # NoRow
       THEN Return(p, Resp("register", "errors",
                           Err("email", "email already in use"), NoUser, ""))
     ELSE Goto(p, [Idle EXCEPT !.pc = "register_username", !.op = "register",
                               !.email = email, !.username = username,
                               !.password = password])
  /\ UNCHANGED <<users, redis, session, outbox, now, ticks, uses>>

\* register, lines 84-123: the username and length checks, on the answer to
\* the second query
RegisterUsername(p) ==
  /\ procs[p].pc = "register_username"
  /\ IF includes(procs[p].username, "@")
       THEN Return(p, Resp("register", "errors",
                  Err("username", "username cannot contain '@' sign"), NoUser, ""))
     ELSE IF findOneByUsername(users, procs[p].username) # NoRow
       THEN Return(p, Resp("register", "errors",
                  Err("username", "username not available"), NoUser, ""))
     ELSE IF tooShort(procs[p].username)
       THEN Return(p, Resp("register", "errors",
                  Err("username", "username must be atleast 3 characters long"),
                  NoUser, ""))
     ELSE IF tooShort(procs[p].password)
       THEN Return(p, Resp("register", "errors",
                  Err("password", "password must be atleast 3 characters long"),
                  NoUser, ""))
     ELSE Goto(p, [procs[p] EXCEPT !.pc = "register_save"])
  /\ UNCHANGED <<users, redis, session, outbox, now, ticks, uses>>

\* register, lines 125-136: the insert and the session
RegisterSave(p, c) ==
  /\ procs[p].pc = "register_save"
  /\ LET saved == save(users, procs[p].email, procs[p].username,
                       argon2_hash(procs[p].password))
     IN IF ~saved.ok
          THEN /\ Return(p, Resp("register", "throw", NoErrors, NoUser, ""))
               /\ UNCHANGED <<users, session>>
          ELSE /\ users' = saved.users
               /\ session' = [session EXCEPT ![c] = saved.row.id]
               /\ Return(p, Resp("register", "user", NoErrors, saved.row.id, ""))
  /\ UNCHANGED <<redis, outbox, now, ticks, uses>>

\* forgotPassword, lines 191-196
ForgotFind(p, email) ==
  /\ procs[p].pc = "idle"
  /\ LET user == findOneByEmail(users, email) IN
     IF user = NoRow
       THEN Return(p, Resp("forgotPassword", "true", NoErrors, NoUser, ""))
       ELSE Goto(p, [Idle EXCEPT !.pc = "forgot_set", !.op = "forgotPassword",
                                 !.email = email, !.uid = user.id])
  /\ UNCHANGED <<users, redis, session, outbox, now, ticks, uses>>

\* forgotPassword, lines 198-208
ForgotSet(p, token) ==
  /\ procs[p].pc = "forgot_set"
  /\ redis' = redisSet(redis, Key(token), procs[p].uid, TokenExpiry, now)
  /\ outbox' = sendEmail(outbox, procs[p].email, resetLink(token))
  /\ uses' = [uses EXCEPT ![token] = 0]
  /\ Return(p, Resp("forgotPassword", "true", NoErrors, NoUser, token))
  /\ UNCHANGED <<users, session, now, ticks>>

\* changePassword, lines 217-237: the length check and the GET
ChangeGet(p, token, newPassword) ==
  /\ procs[p].pc = "idle"
  /\ LET userId == redisGet(redis, Key(token), now) IN
     IF tooShort(newPassword)
       THEN Return(p, Resp("changePassword", "errors",
                  Err("newPassword", "password must be atleast 3 characters long"),
                  NoUser, token))
     ELSE IF userId = << >>
       THEN Return(p, Resp("changePassword", "errors",
                           Err("token", "token expired"), NoUser, token))
     ELSE Goto(p, [Idle EXCEPT !.pc = "change_find", !.op = "changePassword",
                               !.token = token, !.password = newPassword,
                               !.uid = parseInt(userId)])
  /\ UNCHANGED <<users, redis, session, outbox, now, ticks, uses>>

\* changePassword, lines 239-246
ChangeFind(p) ==
  /\ procs[p].pc = "change_find"
  /\ IF findOneById(users, procs[p].uid) = NoRow
       THEN Return(p, Resp("changePassword", "errors",
                           Err("token", "user no longer exists"), NoUser,
                           procs[p].token))
       ELSE Goto(p, [procs[p] EXCEPT !.pc = "change_update"])
  /\ UNCHANGED <<users, redis, session, outbox, now, ticks, uses>>

\* changePassword, lines 248-251
ChangeUpdate(p) ==
  /\ procs[p].pc = "change_update"
  /\ users' = updatePassword(users, procs[p].uid, argon2_hash(procs[p].password))
  /\ Goto(p, [procs[p] EXCEPT !.pc = "change_del"])
  /\ UNCHANGED <<redis, session, outbox, now, ticks, uses>>

\* changePassword, lines 253-257
ChangeDel(p, c) ==
  /\ procs[p].pc = "change_del"
  /\ redis' = redisDel(redis, Key(procs[p].token))
  /\ session' = [session EXCEPT ![c] = procs[p].uid]
  /\ uses' = [uses EXCEPT ![procs[p].token] = @ + 1]
  /\ Return(p, Resp("changePassword", "user", NoErrors, procs[p].uid,
                    procs[p].token))
  /\ UNCHANGED <<users, outbox, now, ticks>>

NextConc ==
  \/ \E p \in Procs, e \in ConcEmails, u \in ConcUsernames, pw \in ConcPasswords :
       RegisterEmail(p, e, u, pw)
  \/ \E p \in Procs : RegisterUsername(p)
  \/ \E p \in Procs, c \in Clients : RegisterSave(p, c)
  \/ \E p \in Procs, e \in ConcEmails : ForgotFind(p, e)
  \/ \E p \in Procs, t \in ConcTokens : ForgotSet(p, t)
  \/ \E p \in Procs, t \in ConcTokens, pw \in ConcPasswords : ChangeGet(p, t, pw)
  \/ \E p \in Procs : ChangeFind(p)
  \/ \E p \in Procs : ChangeUpdate(p)
  \/ \E p \in Procs, c \in Clients : ChangeDel(p, c)

SpecConc == Init /\ [][NextConc]_vars

----------------------------------------------------------------------------
(* Properties *)

TokenExpired == Err("token", "token expired")

LongEnough(p) == Len(p) >= 3

Consumed(t) == uses[t] >= 1

EmailBound(e) == \E r \in users : r.email = e

UsernameBound(u) == \E r \in users : r.username = u

\* C1 as stated: once changePassword has succeeded with a token, and until
\* forgotPassword issues that token again, every changePassword call with it
\* fails with the single error token: token expired.
C1_SecondUseAlwaysTokenExpired ==
  \A c \in Clients, t \in Tokens, p \in Passwords :
    Consumed(t) =>
      changePassword(users, redis, session, c, t, p, now).resp.errors = TokenExpired

\* C1 amended: once changePassword has succeeded with a token, and until
\* forgotPassword issues that token again, every changePassword call with it
\* and a new password of at least 3 characters fails with the single error
\* token: token expired, and every such call with a shorter password fails
\* with a single error on newPassword.
C1_SecondUseFails ==
  \A c \in Clients, t \in Tokens, p \in Passwords :
    Consumed(t) =>
      LET r == changePassword(users, redis, session, c, t, p, now).resp IN
      /\ r.kind = "errors"
      /\ Len(r.errors) = 1
      /\ LongEnough(p) => r.errors = TokenExpired
      /\ ~LongEnough(p) => r.errors[1].field = "newPassword"

C1_Witness ==
  /\ resp.op = "changePassword"
  /\ resp.errors = TokenExpired
  /\ Consumed(resp.token)

\* C2: a token issued by one forgotPassword call lets at most one
\* changePassword call succeed, however the calls carrying it interleave.
C2_ConsumedAtMostOnce == \A t \in Tokens : uses[t] <= 1

\* C3: forgotPassword with an email that belongs to no user returns true,
\* leaves the token store as it was and hands nothing to sendEmail.
C3_UnknownEmailIsSilent ==
  \A e \in Emails, t \in Tokens :
    ~EmailBound(e) =>
      LET r == forgotPassword(users, redis, outbox, e, t, now) IN
      /\ r.resp.kind = "true"
      /\ r.redis = redis
      /\ r.outbox = outbox
      /\ ~r.issued

C3_Witness ==
  /\ resp.op = "forgotPassword"
  /\ resp.token = ""
  /\ users # {}
  /\ \A k \in Keys : redis[k] = NoEntry
  /\ outbox = {}

\* C4: no two user rows share an email and no two share a username, whatever
\* the interleaving of the register calls.
C4_UniqueEmailAndUsername ==
  \A r1 \in users, r2 \in users :
    (r1.email = r2.email \/ r1.username = r2.username \/ r1.id = r2.id) => r1 = r2

C4_Witness ==
  /\ Cardinality(users) = 2
  /\ resp.op = "register"
  /\ resp.kind = "throw"

\* C5 as stated: a register call whose username contains "@" is rejected
\* with an error on field username and creates no user, whatever the email
\* and the password.
C5_AtSignAlwaysUsernameError ==
  \A c \in Clients, e \in Emails, u \in Usernames, p \in Passwords :
    includes(u, "@") =>
      LET r == register(users, session, c, e, u, p) IN
      /\ r.resp.kind = "errors"
      /\ r.resp.errors[1].field = "username"
      /\ r.users = users

\* C5 amended: a register call whose username contains "@" is rejected with
\* exactly one error and creates no user, whatever the password; the error is
\* on field username when the email is well formed and not in use, and on
\* field email otherwise.
C5_AtSignRejected ==
  \A c \in Clients, e \in Emails, u \in Usernames, p \in Passwords :
    (\E i \in 1..Len(u) : u[i] = "@") =>
      LET r == register(users, session, c, e, u, p) IN
      /\ r.resp.kind = "errors"
      /\ Len(r.resp.errors) = 1
      /\ r.users = users
      /\ r.resp.errors[1].field =
           IF validateEmail(e) /\ ~EmailBound(e) THEN "username" ELSE "email"

C5_Witness ==
  /\ resp.op = "register"
  /\ resp.errors = Err("username", "username cannot contain '@' sign")

\* C6: the token forgotPassword stores expires 24 hours (86400 seconds) after
\* issue, so a changePassword with it later than that fails with
\* token: token expired.
C6_TokenLivesOneDay ==
  /\ \A k \in Keys : redis[k] # NoEntry => redis[k].ex = DaySeconds
  /\ \A c \in Clients, t \in Tokens, p \in Passwords :
       ( /\ redis[Key(t)] # NoEntry
         /\ now > redis[Key(t)].setAt + DaySeconds
         /\ LongEnough(p) ) =>
         changePassword(users, redis, session, c, t, p, now).resp.errors = TokenExpired

\* C7: a register call fails exactly when one of the checks (a) email format,
\* (b) email in use, (c) "@" in the username, (d) username taken, (e) username
\* shorter than 3, (f) password shorter than 3 fails, and it then returns one
\* error, that of the first failing check in this order; a registration with
\* an email bound to a user returns one error, on field email.
RegisterChecks(e, u, p) ==
  << ~validateEmail(e), EmailBound(e), \E i \in 1..Len(u) : u[i] = "@",
     UsernameBound(u), Len(u) < 3, Len(p) < 3 >>

RegisterErrors ==
  << Err("email", "invalid email format"),
     Err("email", "email already in use"),
     Err("username", "username cannot contain '@' sign"),
     Err("username", "username not available"),
     Err("username", "username must be atleast 3 characters long"),
     Err("password", "password must be atleast 3 characters long") >>

FirstFailing(checks) ==
  CHOOSE i \in 1..Len(checks) : checks[i] /\ \A j \in 1..(i - 1) : ~checks[j]

C7_FirstFailingCheckOnly ==
  \A c \in Clients, e \in Emails, u \in Usernames, p \in Passwords :
    LET r == register(users, session, c, e, u, p)
        checks == RegisterChecks(e, u, p)
        failing == \E i \in 1..Len(checks) : checks[i]
    IN
    /\ (r.resp.kind = "errors") = failing
    /\ failing => r.resp.errors = RegisterErrors[FirstFailing(checks)]
    /\ EmailBound(e) => /\ Len(r.resp.errors) = 1
                        /\ r.resp.errors[1].field = "email"

C7_Witness ==
  /\ resp.op = "register"
  /\ resp.errors = Err("email", "email already in use")
  /\ Cardinality(users) = 2

\* C8: when register(email, username, pw) succeeds, login(username, pw) on
\* the state it leaves succeeds, returns the id register returned and binds
\* the session to that id.
C8_RegisterThenLogin ==
  \A c \in Clients, e \in Emails, u \in Usernames, p \in Passwords :
    LET r == register(users, session, c, e, u, p) IN
    r.resp.kind = "user" =>
      \A c2 \in Clients :
        LET l == login(r.users, r.session, c2, u, p) IN
        /\ l.resp.kind = "user"
        /\ l.resp.user = r.resp.user
        /\ l.resp.user # NoUser
        /\ l.session[c2] = r.resp.user

C8_Witness ==
  /\ resp.op = "login"
  /\ resp.kind = "user"
  /\ \E c \in Clients : session[c] = resp.user
  /\ \E r \in users : r.id = resp.user /\ ~validateEmail(r.username)

\* C9: logout answers true when the session is destroyed and false when the
\* destroy fails, and nothing else; after a logout that answered true the
\* session holds no user id and me returns null, and a session without a user
\* id gets one only by a successful register, login or changePassword.
LogoutAnswers ==
  \A c \in Clients, err \in BOOLEAN, lost \in BOOLEAN :
    LET r == logout(session, c, err, lost) IN
    /\ r.resp.kind = (IF err THEN "false" ELSE "true")
    /\ r.resp.kind = "true" =>
         /\ r.session[c] = NoUser
         /\ me(users, r.session, c) = NoUser

BoundOnlyBySuccess ==
  \A c \in Clients :
    (session[c] = NoUser /\ session'[c] # NoUser) =>
      /\ resp'.op \in {"register", "login", "changePassword"}
      /\ resp'.kind = "user"
      /\ resp'.user = session'[c]

C9_LogoutUnbinds == [](LogoutAnswers) /\ [][BoundOnlyBySuccess]_vars

C9_Witness ==
  /\ resp.op = "logout"
  /\ resp.kind = "true"
  /\ users # {}
  /\ \A c \in Clients : session[c] = NoUser /\ me(users, session, c) = NoUser

\* C10: a register, login or changePassword call that returns errors leaves
\* the user table, the token store and the session as they were.
FailedCallChangesNothing ==
  (resp'.op \in {"register", "login", "changePassword"} /\ resp'.kind = "errors") =>
    UNCHANGED <<users, redis, session>>

====
